---- MODULE Spec2Model ----
(***************************************************************************)
(* The Datapay ROI / efficiency calculator: the three Page variants of the *)
(* repository (the basic page, the page with RISK_BANDS, the segment-aware *)
(* page), each a set of useState cells and one useMemo-ed calculation.     *)
(*                                                                         *)
(* Numbers.  A JavaScript number is modelled as an exact rational          *)
(* [n |-> numerator, d |-> denominator] in lowest terms with d > 0, plus   *)
(* the three non-finite values d = 0: NaN (n = 0), Infinity (n = 1) and    *)
(* -Infinity (n = -1).  Arithmetic is real arithmetic: the rounding of     *)
(* IEEE doubles is not modelled, the non-finite results of division are.   *)
(* Where a figure turns on that rounding (the percentage of the segment    *)
(* page, a quotient that Math.round takes at a tie), it is computed once   *)
(* more in binary64, bit for bit, under DoubleSpec.                        *)
(***************************************************************************)
EXTENDS Integers, Sequences, FiniteSets, TLC

VARIABLES variant, inputs, memo, dial

vars == <<variant, inputs, memo, dial>>

(* ------------------------------ numbers -------------------------------- *)

Abs(i) == IF i < 0 THEN -i ELSE i

Sign(i) == IF i < 0 THEN -1 ELSE IF i > 0 THEN 1 ELSE 0

RECURSIVE GCD(_, _)
GCD(a, b) == IF b = 0 THEN a ELSE GCD(b, a % b)

\* n / d in lowest terms, d # 0
Frac(n, d) ==
    LET g == GCD(Abs(n), Abs(d))
    IN  [n |-> Sign(d) * (n \div g), d |-> Abs(d) \div g]

Num(i) == [n |-> i, d |-> 1]

NaN == [n |-> 0, d |-> 0]

Infinity == [n |-> 1, d |-> 0]

NegInfinity == [n |-> -1, d |-> 0]

IsNaN(x) == x.d = 0 /\ x.n = 0

IsFinite(x) == x.d > 0

\* a * b
Times(a, b) ==
    IF IsNaN(a) \/ IsNaN(b) THEN NaN
    ELSE IF a.d = 0 \/ b.d = 0
         THEN [n |-> Sign(a.n) * Sign(b.n), d |-> 0]
    ELSE LET g1 == GCD(Abs(a.n), b.d)
             g2 == GCD(Abs(b.n), a.d)
         IN  [n |-> (a.n \div g1) * (b.n \div g2),
              d |-> (a.d \div g2) * (b.d \div g1)]

\* a + b
Plus(a, b) ==
    IF IsNaN(a) \/ IsNaN(b) THEN NaN
    ELSE IF a.d = 0 /\ b.d = 0 THEN (IF a.n = b.n THEN a ELSE NaN)
    ELSE IF a.d = 0 THEN a
    ELSE IF b.d = 0 THEN b
    ELSE LET g == GCD(a.d, b.d)
             l == (a.d \div g) * b.d
         IN  Frac(a.n * (l \div a.d) + b.n * (l \div b.d), l)

Neg(a) == [n |-> -a.n, d |-> a.d]

\* a - b
Minus(a, b) == Plus(a, Neg(b))

\* a / b (the sign of a zero divisor is not modelled: x / 0 is +-Infinity by
\* the sign of x, and 0 / 0 is NaN)
Over(a, b) ==
    IF IsNaN(a) \/ IsNaN(b) THEN NaN
    ELSE IF b.d = 0 THEN (IF a.d = 0 THEN NaN ELSE Num(0))
    ELSE IF b.n = 0 THEN [n |-> Sign(a.n), d |-> 0]
    ELSE IF a.d = 0 THEN [n |-> a.n * Sign(b.n), d |-> 0]
    ELSE Times(a, Frac(b.d, b.n))

\* a < b, false when either is NaN
Less(a, b) ==
    IF IsNaN(a) \/ IsNaN(b) THEN FALSE
    ELSE IF a.d = 0 \/ b.d = 0
         THEN (IF a.d = 0 /\ b.d = 0 THEN a.n < b.n
               ELSE IF a.d = 0 THEN a.n < 0 ELSE b.n > 0)
    ELSE LET g == GCD(a.d, b.d)
         IN  a.n * (b.d \div g) < b.n * (a.d \div g)

\* a <= b, false when either is NaN
Leq(a, b) == ~IsNaN(a) /\ ~IsNaN(b) /\ ~Less(b, a)

MathMin(a, b) ==
    IF IsNaN(a) \/ IsNaN(b) THEN NaN ELSE IF Less(b, a) THEN b ELSE a

MathMax(a, b) ==
    IF IsNaN(a) \/ IsNaN(b) THEN NaN ELSE IF Less(a, b) THEN b ELSE a

\* Math.round: the nearest integer, a tie going up (floor(x + 1/2))
MathRound(a) ==
    IF a.d = 0 THEN a ELSE Num((2 * a.n + a.d) \div (2 * a.d))

(* ------------------------------ constants ------------------------------ *)

PAY_CYCLES == {Num(52), Num(26), Num(24), Num(12)}

RiskBandKey == {"low", "medium", "high"}

RISK_BANDS ==
    [k \in RiskBandKey |->
        CASE k = "low" -> [min |-> Num(0), max |-> Num(10000), mid |-> Num(5000)]
          [] k = "medium" -> [min |-> Num(10000), max |-> Num(30000), mid |-> Num(20000)]
          [] k = "high" -> [min |-> Num(30000), max |-> Num(100000), mid |-> Num(65000)]]

SEGMENTS == {"Council", "Enterprise"}

SAVINGS_WEIGHTS ==
    [g \in SEGMENTS |->
        IF g = "Council"
        THEN [manual |-> Frac(7, 10), compliance |-> Frac(2, 10), errors |-> Frac(1, 10)]
        ELSE [manual |-> Frac(6, 10), compliance |-> Frac(25, 100), errors |-> Frac(15, 100)]]

PenaltyBands == {"Low", "Medium", "High"}

(* ----------------- the calculation shared by the variants -------------- *)

\* + written for *
currentAdminHoursSum(payCycles, avgHoursPerCycle) == Plus(payCycles, avgHoursPerCycle)

currentAdminHours(payCycles, avgHoursPerCycle) == Times(payCycles, avgHoursPerCycle)

currentAdminCost(adminHours, hourlyRate) == Times(adminHours, hourlyRate)

\* the share of the hours without errors, taken for the share with them
hoursBackToTeamComplement(adminHours, errorRatePct) ==
    Times(adminHours, Over(Minus(Num(100), errorRatePct), Num(100)))

hoursBackToTeam(adminHours, errorRatePct) ==
    Times(adminHours, Over(errorRatePct, Num(100)))

\* the band with 20 points to the percent of error rate
efficiencyPctBy20(errorRatePct) ==
    MathMin(Num(100), MathRound(Times(errorRatePct, Num(20))))

\* the band for the big dial: no lower clamp, Math.min only
efficiencyPct(errorRatePct) ==
    MathMin(Num(100), MathRound(Times(errorRatePct, Num(25))))

(* --------------------------- the basic page ---------------------------- *)

EngineBasic(s) ==
    LET hours == currentAdminHours(s.payCycles, s.avgHoursPerCycle)
        cost == currentAdminCost(hours, s.hourlyRate)
        back == hoursBackToTeam(hours, s.errorRatePct)
    IN  [currentAdminHours |-> hours,
         currentAdminCost |-> cost,
         hoursBackToTeam |-> back,
         totalAnnualSavings |-> Times(back, s.hourlyRate),
         efficiencyPct |-> efficiencyPct(s.errorRatePct)]

(* ----------------------- the page with RISK_BANDS ---------------------- *)

efficiencyDollars(hoursBack, hourlyRate) == Times(hoursBack, hourlyRate)

effSplit ==
    [manual |-> Frac(70, 100), compliance |-> Frac(20, 100), errors |-> Frac(10, 100)]

byCategory(hoursBack, hourlyRate) ==
    [c \in {"manual", "compliance", "errors"} |->
        [hours |-> Times(hoursBack, effSplit[c]),
         dollars |-> Times(Times(hoursBack, effSplit[c]), hourlyRate)]]

complianceRiskDollars(riskBand, incidentProbPct) ==
    Over(Times(RISK_BANDS[riskBand].mid, incidentProbPct), Num(100))

RECORD_DAMP == Frac(6, 10)

\* the record-keeping hours divided by the hourly rate
recordKeepingDollarsPerRate(adminHours, recordKeepingEffPct, hourlyRate) ==
    LET recordKeepingHours ==
            Times(Times(adminHours, Over(recordKeepingEffPct, Num(100))), RECORD_DAMP)
    IN  Over(recordKeepingHours, hourlyRate)

recordKeepingDollars(adminHours, recordKeepingEffPct, hourlyRate) ==
    LET recordKeepingHours ==
            Times(Times(adminHours, Over(recordKeepingEffPct, Num(100))), RECORD_DAMP)
    IN  Times(recordKeepingHours, hourlyRate)

riskTotalAnnualSavings(effDollars, riskDollars, recordDollars) ==
    Plus(Plus(effDollars, riskDollars), recordDollars)

EngineRisk(s) ==
    LET hours == currentAdminHours(s.payCycles, s.avgHoursPerCycle)
        cost == currentAdminCost(hours, s.hourlyRate)
        back == hoursBackToTeam(hours, s.errorRatePct)
        eff == efficiencyDollars(back, s.hourlyRate)
        risk == complianceRiskDollars(s.riskBand, s.incidentProbPct)
        rec == recordKeepingDollars(hours, s.recordKeepingEffPct, s.hourlyRate)
    IN  [currentAdminHours |-> hours,
         currentAdminCost |-> cost,
         hoursBackToTeam |-> back,
         efficiencyDollars |-> eff,
         byCategory |-> byCategory(back, s.hourlyRate),
         complianceRiskDollars |-> risk,
         recordKeepingDollars |-> rec,
         totalAnnualSavings |-> riskTotalAnnualSavings(eff, risk, rec),
         efficiencyPct |-> efficiencyPct(s.errorRatePct)]

(* ------------------------ the segment-aware page ----------------------- *)

\* the two factors given to the wrong segments
efficiencyFactorSwapped(segment) == IF segment = "Enterprise" THEN Frac(4, 10) ELSE Frac(8, 10)

efficiencyFactor(segment) == IF segment = "Enterprise" THEN Frac(8, 10) ELSE Frac(4, 10)

\* the factor 1.0 for both segments
errorFactorNeutral(segment) == Num(1)

errorFactor(segment) == IF segment = "Enterprise" THEN Frac(8, 10) ELSE Num(1)

manualSavings(cost, w, effFactor) ==
    Times(Times(cost, w.manual), Minus(Num(1), effFactor))

complianceSavings(cost, w, effFactor) ==
    Times(Times(cost, w.compliance), Minus(Num(1), effFactor))

\* the error rate taken as a factor, not as a percentage
errorSavingsByWholeRate(cost, w, errorRate, errFactor) ==
    Times(Times(Times(cost, w.errors), errorRate), errFactor)

errorSavings(cost, w, errorRate, errFactor) ==
    Times(Times(Times(cost, w.errors), Over(errorRate, Num(100))), errFactor)

bandRange(penaltyBand) ==
    IF penaltyBand = "High" THEN <<Num(30000), Num(100000)>>
    ELSE IF penaltyBand = "Medium" THEN <<Num(10000), Num(30000)>>
    ELSE <<Num(0), Num(5000)>>

\* bandRange[0] + bandRange[1] / 2, the parentheses forgotten
avgPenaltyUnparenthesised(penaltyBand) ==
    Plus(bandRange(penaltyBand)[1], Over(bandRange(penaltyBand)[2], Num(2)))

avgPenalty(penaltyBand) ==
    Over(Plus(bandRange(penaltyBand)[1], bandRange(penaltyBand)[2]), Num(2))

complianceRiskAvoidance(penaltyBand, incidentProb) ==
    Over(Times(avgPenalty(penaltyBand), incidentProb), Num(100))

recordSavings(cost, recordEff) == Over(Times(cost, recordEff), Num(100))

\* the sum with its last term left out
segmentTotalWithoutRecords(manual, compliance, errors, riskAvoidance, records) ==
    Plus(Plus(Plus(manual, compliance), errors), riskAvoidance)

segmentTotalAnnualSavings(manual, compliance, errors, riskAvoidance, records) ==
    Plus(Plus(Plus(Plus(manual, compliance), errors), riskAvoidance), records)

\* the dollars of the three buckets, not divided by the hourly rate
totalAdminHoursInDollars(manual, compliance, errors, hourlyRate) ==
    Plus(Plus(manual, compliance), errors)

totalAdminHours(manual, compliance, errors, hourlyRate) ==
    Over(Plus(Plus(manual, compliance), errors), hourlyRate)

efficiencyPercent(manual, compliance, errors, cost) ==
    MathMin(Num(100),
            MathRound(Times(Over(Plus(Plus(manual, compliance), errors), cost),
                            Num(100))))

\* the calculation with the risk avoidance and the record savings weighted
\* by the segment's compliance weight
EngineSegmentWeighted(s) ==
    LET hours == currentAdminHours(s.payCycles, s.avgHoursPerCycle)
        cost == currentAdminCost(hours, s.hourlyRate)
        w == SAVINGS_WEIGHTS[s.segment]
        manual == manualSavings(cost, w, efficiencyFactor(s.segment))
        compliance == complianceSavings(cost, w, efficiencyFactor(s.segment))
        errors == errorSavings(cost, w, s.errorRate, errorFactor(s.segment))
        riskAvoidance ==
            Times(complianceRiskAvoidance(s.penaltyBand, s.incidentProb), w.compliance)
        records == Times(recordSavings(cost, s.recordEff), w.compliance)
    IN  [efficiencyPercent |-> efficiencyPercent(manual, compliance, errors, cost),
         currentAdminCost |-> cost,
         totalAnnualSavings |->
             segmentTotalAnnualSavings(manual, compliance, errors, riskAvoidance, records),
         totalAdminHours |-> totalAdminHours(manual, compliance, errors, s.hourlyRate),
         breakdown |-> [manualSavings |-> manual,
                        complianceSavings |-> compliance,
                        errorSavings |-> errors,
                        complianceRiskAvoidance |-> riskAvoidance,
                        recordSavings |-> records]]

EngineSegment(s) ==
    LET hours == currentAdminHours(s.payCycles, s.avgHoursPerCycle)
        cost == currentAdminCost(hours, s.hourlyRate)
        w == SAVINGS_WEIGHTS[s.segment]
        manual == manualSavings(cost, w, efficiencyFactor(s.segment))
        compliance == complianceSavings(cost, w, efficiencyFactor(s.segment))
        errors == errorSavings(cost, w, s.errorRate, errorFactor(s.segment))
        riskAvoidance == complianceRiskAvoidance(s.penaltyBand, s.incidentProb)
        records == recordSavings(cost, s.recordEff)
    IN  [efficiencyPercent |-> efficiencyPercent(manual, compliance, errors, cost),
         currentAdminCost |-> cost,
         totalAnnualSavings |->
             segmentTotalAnnualSavings(manual, compliance, errors, riskAvoidance, records),
         totalAdminHours |-> totalAdminHours(manual, compliance, errors, s.hourlyRate),
         breakdown |-> [manualSavings |-> manual,
                        complianceSavings |-> compliance,
                        errorSavings |-> errors,
                        complianceRiskAvoidance |-> riskAvoidance,
                        recordSavings |-> records]]

Variants == {"basic", "risk", "segment"}

Engine(v, s) ==
    CASE v = "basic" -> EngineBasic(s)
      [] v = "risk" -> EngineRisk(s)
      [] v = "segment" -> EngineSegment(s)

(* ------------------------------ the gauges ----------------------------- *)

clamp(n, lo, hi) == MathMax(lo, MathMin(hi, n))

\* Angles are kept as multiples of Math.PI: the angle t stands for t * Math.PI.
\* Math.cos and Math.sin are rational at the multiples of a quarter turn, and
\* are computed there only.
IsQuarterTurn(t) == IsFinite(t) /\ t.d \in {1, 2}

MathCos(t) ==
    IF ~IsFinite(t) THEN NaN
    ELSE CASE ((2 * t.n) \div t.d) % 4 = 0 -> Num(1)
           [] ((2 * t.n) \div t.d) % 4 = 1 -> Num(0)
           [] ((2 * t.n) \div t.d) % 4 = 2 -> Num(-1)
           [] ((2 * t.n) \div t.d) % 4 = 3 -> Num(0)

MathSin(t) ==
    IF ~IsFinite(t) THEN NaN
    ELSE CASE ((2 * t.n) \div t.d) % 4 = 0 -> Num(0)
           [] ((2 * t.n) \div t.d) % 4 = 1 -> Num(1)
           [] ((2 * t.n) \div t.d) % 4 = 2 -> Num(0)
           [] ((2 * t.n) \div t.d) % 4 = 3 -> Num(-1)

\* the trigonometric gauge of the segment page: the clamped value v, shown as
\* text, the end angle of the progress arc and the flags of its path
Gauge(value) ==
    LET v == MathMax(Num(0), MathMin(Num(100), value))
    IN  [value |-> value,
         text |-> v,
         R |-> Num(40), cx |-> Num(50), cy |-> Num(50),
         endAngle |-> Minus(Num(1), Times(Num(1), Over(v, Num(100)))),
         largeArcFlag |-> IF Less(Num(50), v) THEN 1 ELSE 0,
         sweepFlag |-> 1]

\* the end point of the progress arc of a drawn Gauge g
endX(g) == Plus(g.cx, Times(g.R, MathCos(g.endAngle)))

endY(g) == Plus(g.cy, Times(g.R, MathSin(g.endAngle)))

\* the background path of Gauge, M cx-R cy A R R 0 1 1 cx+R cy: an arc of the
\* circle of centre (cx, cy) from the point at angle 1 (cx-R, cy) to the point
\* at angle 2 (cx+R, cy); its sweep flag 1 makes it run through the
\* increasing angles
backgroundArc == [from |-> Num(1), to |-> Num(2), sweepFlag |-> 1]

\* the dash-array gauge of the page with RISK_BANDS
MainGauge(valuePct) ==
    LET clamped == clamp(valuePct, Num(0), Num(100))
        total == Num(126)
    IN  [value |-> valuePct,
         text |-> MathRound(clamped),
         dash |-> Times(Over(clamped, Num(100)), total),
         total |-> total]

\* a bar that takes any total as a divisor
MiniGaugeUnguarded(dollars, total) ==
    [dollars |-> dollars,
     total |-> total,
     pct |-> clamp(Times(Over(dollars, total), Num(100)), Num(0), Num(100))]

\* a bar of the breakdown: pct is the width of the bar, in percent
MiniGauge(dollars, total) ==
    [dollars |-> dollars,
     total |-> total,
     pct |-> IF Less(Num(0), total)
             THEN clamp(Times(Over(dollars, total), Num(100)), Num(0), Num(100))
             ELSE Num(0)]

\* the three bars of "Your total annual ROI breakdown"
Breakdown(p) ==
    [efficiency |-> MiniGauge(p.efficiencyDollars, p.totalAnnualSavings),
     risk |-> MiniGauge(p.complianceRiskDollars, p.totalAnnualSavings),
     record |-> MiniGauge(p.recordKeepingDollars, p.totalAnnualSavings)]

\* what the page hands to the three bars
BreakdownProps(o) ==
    [efficiencyDollars |-> o.efficiencyDollars,
     complianceRiskDollars |-> o.complianceRiskDollars,
     recordKeepingDollars |-> o.recordKeepingDollars,
     totalAnnualSavings |-> o.totalAnnualSavings]

\* the dial of the basic page, written into the page itself
DIAL(efficiencyPctShown) ==
    [value |-> efficiencyPctShown,
     text |-> efficiencyPctShown,
     dash |-> Times(Over(efficiencyPctShown, Num(100)), Num(126)),
     total |-> Num(126)]

\* the gauge each page renders
GaugeOf(v, value) ==
    CASE v = "basic" -> DIAL(value)
      [] v = "risk" -> MainGauge(value)
      [] v = "segment" -> Gauge(value)

\* the figure each page hands to its gauge
GaugeValue(v, o) == IF v = "segment" THEN o.efficiencyPercent ELSE o.efficiencyPct

(* ------------------------- the pages' state ---------------------------- *)

\* the useState initial values of each page
Defaults(v) ==
    CASE v = "basic" ->
            [employees |-> Num(250), payCycles |-> Num(26), avgHoursPerCycle |-> Num(8),
             errorRatePct |-> Num(3), hourlyRate |-> Num(55)]
      [] v = "risk" ->
            [employees |-> Num(250), payCycles |-> Num(26), avgHoursPerCycle |-> Num(8),
             errorRatePct |-> Num(3), hourlyRate |-> Num(55),
             recordKeepingEffPct |-> Frac(55, 10), riskBand |-> "medium",
             incidentProbPct |-> Num(8)]
      [] v = "segment" ->
            [segment |-> "Council", employees |-> Num(250), payCycles |-> Num(26),
             avgHoursPerCycle |-> Num(8), errorRate |-> Num(3), hourlyRate |-> Num(55),
             recordEff |-> Frac(55, 10), penaltyBand |-> "Low", incidentProb |-> Num(8)]

\* the dependency lists with hourlyRate forgotten
DepsWithoutHourlyRate(v) ==
    CASE v = "basic" -> <<"payCycles", "avgHoursPerCycle", "errorRatePct">>
      [] v = "risk" ->
            <<"payCycles", "avgHoursPerCycle", "errorRatePct",
              "recordKeepingEffPct", "riskBand", "incidentProbPct">>
      [] v = "segment" ->
            <<"segment", "payCycles", "avgHoursPerCycle", "errorRate",
              "recordEff", "penaltyBand", "incidentProb">>

\* the dependency list of each page's useMemo
Deps(v) ==
    CASE v = "basic" -> <<"payCycles", "avgHoursPerCycle", "errorRatePct", "hourlyRate">>
      [] v = "risk" ->
            <<"payCycles", "avgHoursPerCycle", "errorRatePct", "hourlyRate",
              "recordKeepingEffPct", "riskBand", "incidentProbPct">>
      [] v = "segment" ->
            <<"segment", "payCycles", "avgHoursPerCycle", "errorRate", "hourlyRate",
              "recordEff", "penaltyBand", "incidentProb">>

DepValues(v, s) == [i \in 1..Len(Deps(v)) |-> s[Deps(v)[i]]]

Unmounted == [deps |-> <<>>, value |-> <<>>]

Mounted == memo # Unmounted

\* no gauge on the screen yet
Undrawn == [value |-> <<>>]

Drawn == "text" \in DOMAIN dial

\* a render that runs the calculation every time, on pay cycles counted once
\* for each employee
RenderPerEmployee(v, s, m) ==
    [deps |-> DepValues(v, s),
     value |-> Engine(v, [s EXCEPT !.payCycles = Times(s.payCycles, s.employees)])]

\* useMemo during a render: the calculation runs on the first render and when
\* a dependency differs from the one of the render before
Render(v, s, m) ==
    IF m # Unmounted /\ m.deps = DepValues(v, s)
    THEN m
    ELSE [deps |-> DepValues(v, s), value |-> Engine(v, s)]

(* ------------------------ what the inputs offer ------------------------ *)

MaxHourlyRate == 1

\* the min, max and step attributes of the range inputs
Slider(v, field) ==
    CASE v = "basic" /\ field = "avgHoursPerCycle" -> [min |-> Num(1), max |-> Num(20), step |-> Frac(1, 2)]
      [] v = "basic" /\ field = "errorRatePct" -> [min |-> Num(0), max |-> Num(10), step |-> Frac(1, 2)]
      [] v = "risk" /\ field = "avgHoursPerCycle" -> [min |-> Num(1), max |-> Num(20), step |-> Frac(1, 2)]
      [] v = "risk" /\ field = "errorRatePct" -> [min |-> Num(0), max |-> Num(15), step |-> Frac(1, 2)]
      [] v = "risk" /\ field = "recordKeepingEffPct" -> [min |-> Num(0), max |-> Num(15), step |-> Frac(1, 2)]
      [] v = "risk" /\ field = "incidentProbPct" -> [min |-> Num(0), max |-> Num(25), step |-> Num(1)]
      [] v = "segment" /\ field = "avgHoursPerCycle" -> [min |-> Num(1), max |-> Num(40), step |-> Num(1)]
      [] v = "segment" /\ field = "errorRate" -> [min |-> Num(0), max |-> Num(10), step |-> Num(1)]
      [] v = "segment" /\ field = "recordEff" -> [min |-> Num(0), max |-> Num(20), step |-> Num(1)]
      [] v = "segment" /\ field = "incidentProb" -> [min |-> Num(0), max |-> Num(20), step |-> Num(1)]

\* the values taken of a range input: its two ends, or its lower end alone
SliderEnds(v, field) == {Slider(v, field).min, Slider(v, field).max}

SliderMin(v, field) == {Slider(v, field).min}

\* values typed into the number input of the hourly rate
HourlyRates == {Num(r) : r \in 0..MaxHourlyRate} \cup {Num(55)}

EmployeesValues == {Num(1), Num(250)}

(* ------------------------------ the pages ------------------------------ *)

Init ==
    /\ variant \in Variants
    /\ inputs = Defaults(variant)
    /\ memo = Unmounted
    /\ dial = Undrawn

\* the first render of the page
Mount ==
    /\ ~Mounted
    /\ memo' = Render(variant, inputs, memo)
    /\ dial' = GaugeOf(variant, GaugeValue(variant, memo'.value))
    /\ UNCHANGED <<variant, inputs>>

\* a setter called from an onChange handler, and the render that follows
Set(field, value) ==
    /\ field \in DOMAIN inputs
    /\ inputs' = [inputs EXCEPT ![field] = value]
    /\ memo' = Render(variant, inputs', memo)
    /\ dial' = GaugeOf(variant, GaugeValue(variant, memo'.value))
    /\ UNCHANGED variant

setEmployees ==
    /\ Mounted
    /\ \E x \in EmployeesValues : Set("employees", x)

setPayCycles ==
    /\ Mounted
    /\ \E x \in PAY_CYCLES : Set("payCycles", x)

setAvgHoursPerCycle ==
    /\ Mounted
    /\ \E x \in SliderMin(variant, "avgHoursPerCycle") : Set("avgHoursPerCycle", x)

setErrorRatePct ==
    /\ Mounted /\ variant \in {"basic", "risk"}
    /\ \E x \in SliderEnds(variant, "errorRatePct") : Set("errorRatePct", x)

setHourlyRate ==
    /\ Mounted
    /\ \E x \in HourlyRates : Set("hourlyRate", x)

setRecordKeepingEffPct ==
    /\ Mounted /\ variant = "risk"
    /\ \E x \in SliderMin(variant, "recordKeepingEffPct") : Set("recordKeepingEffPct", x)

setRiskBand ==
    /\ Mounted /\ variant = "risk"
    /\ \E x \in RiskBandKey : Set("riskBand", x)

setIncidentProbPct ==
    /\ Mounted /\ variant = "risk"
    /\ \E x \in SliderMin(variant, "incidentProbPct") : Set("incidentProbPct", x)

setSegment ==
    /\ Mounted /\ variant = "segment"
    /\ \E x \in SEGMENTS : Set("segment", x)

setErrorRate ==
    /\ Mounted /\ variant = "segment"
    /\ \E x \in SliderEnds(variant, "errorRate") : Set("errorRate", x)

setRecordEff ==
    /\ Mounted /\ variant = "segment"
    /\ \E x \in SliderMin(variant, "recordEff") : Set("recordEff", x)

setPenaltyBand ==
    /\ Mounted /\ variant = "segment"
    /\ \E x \in PenaltyBands : Set("penaltyBand", x)

setIncidentProb ==
    /\ Mounted /\ variant = "segment"
    /\ \E x \in SliderMin(variant, "incidentProb") : Set("incidentProb", x)

Next ==
    \/ Mount
    \/ setEmployees
    \/ setPayCycles
    \/ setAvgHoursPerCycle
    \/ setErrorRatePct
    \/ setHourlyRate
    \/ setRecordKeepingEffPct
    \/ setRiskBand
    \/ setIncidentProbPct
    \/ setSegment
    \/ setErrorRate
    \/ setRecordEff
    \/ setPenaltyBand
    \/ setIncidentProb

Spec == Init /\ [][Next]_vars

(* --------------- the calculation on an arbitrary snapshot -------------- *)

\* percentages, some of them outside the range the inputs declare
WidePercents == {Num(-10), Num(0), Num(8), Num(100), Num(150)}

ErrorRates == {Num(0), Frac(1, 2), Num(3), Num(15), Num(100), Num(150)}

Snapshots(v) ==
    CASE v = "basic" ->
            [employees : {Num(250)}, payCycles : PAY_CYCLES, avgHoursPerCycle : {Num(8)},
             errorRatePct : ErrorRates, hourlyRate : HourlyRates]
      [] v = "risk" ->
            [employees : {Num(250)}, payCycles : PAY_CYCLES, avgHoursPerCycle : {Num(8)},
             errorRatePct : ErrorRates, hourlyRate : HourlyRates,
             recordKeepingEffPct : {Frac(55, 10)}, riskBand : RiskBandKey,
             incidentProbPct : WidePercents]
      [] v = "segment" ->
            [segment : SEGMENTS, employees : {Num(250)}, payCycles : PAY_CYCLES,
             avgHoursPerCycle : {Num(8)}, errorRate : ErrorRates, hourlyRate : HourlyRates,
             recordEff : {Frac(55, 10)}, penaltyBand : PenaltyBands,
             incidentProb : WidePercents]

EngineInit ==
    /\ variant \in Variants
    /\ inputs \in Snapshots(variant)
    /\ memo = Unmounted
    /\ dial = Undrawn

EngineNext == Mount

EngineSpec == EngineInit /\ [][EngineNext]_vars

(* ------------------- a gauge given an arbitrary value ------------------ *)

\* values handed to a gauge: below 0, in range, above 100, some not whole
GaugeValues == {Num(5 * k) : k \in -6..26} \cup {Frac(1, 2), Frac(995, 10)}

GaugeInit ==
    /\ variant \in Variants
    /\ inputs = Defaults(variant)
    /\ memo = Unmounted
    /\ dial \in [value : GaugeValues]

\* the gauge of the page renders the value it was handed
DrawGauge ==
    /\ ~Drawn
    /\ dial' = GaugeOf(variant, dial.value)
    /\ UNCHANGED <<variant, inputs, memo>>

GaugeNext == DrawGauge

GaugeSpec == GaugeInit /\ [][GaugeNext]_vars

(* ----------------- the segment percentage in doubles ------------------ *)

\* A JavaScript number is an IEEE 754 binary64: every operation returns the
\* exact result rounded to the nearest number of 53 significant bits, a tie
\* going to the even one.  The definitions below compute just that, on
\* naturals of any size kept as sequences of limbs, the lowest first, with no
\* zero limb at the top.

Limb == 32768

LimbBits == 15

Precision == 53

RECURSIVE Pow2(_)
Pow2(k) == IF k = 0 THEN 1 ELSE 2 * Pow2(k - 1)

RECURSIVE BigNorm(_)
BigNorm(a) ==
    IF a = <<>> THEN <<>>
    ELSE IF a[Len(a)] = 0 THEN BigNorm(SubSeq(a, 1, Len(a) - 1))
    ELSE a

RECURSIVE Big(_)
Big(i) == IF i = 0 THEN <<>> ELSE <<i % Limb>> \o Big(i \div Limb)

RECURSIVE Zeros(_)
Zeros(k) == IF k = 0 THEN <<>> ELSE <<0>> \o Zeros(k - 1)

LimbAt(a, i) == IF i <= Len(a) THEN a[i] ELSE 0

RECURSIVE BigAddFrom(_, _, _, _)
BigAddFrom(a, b, i, carry) ==
    IF i > Len(a) /\ i > Len(b)
    THEN (IF carry = 0 THEN <<>> ELSE <<carry>>)
    ELSE LET x == LimbAt(a, i) + LimbAt(b, i) + carry
         IN  <<x % Limb>> \o BigAddFrom(a, b, i + 1, x \div Limb)

BigAdd(a, b) == BigAddFrom(a, b, 1, 0)

\* a - b for a >= b
RECURSIVE BigSubFrom(_, _, _, _)
BigSubFrom(a, b, i, borrow) ==
    IF i > Len(a) THEN <<>>
    ELSE LET x == LimbAt(a, i) - LimbAt(b, i) - borrow
         IN  IF x < 0
             THEN <<x + Limb>> \o BigSubFrom(a, b, i + 1, 1)
             ELSE <<x>> \o BigSubFrom(a, b, i + 1, 0)

BigSub(a, b) == BigNorm(BigSubFrom(a, b, 1, 0))

RECURSIVE BigLessFrom(_, _, _)
BigLessFrom(a, b, i) ==
    IF i = 0 THEN FALSE
    ELSE IF a[i] # b[i] THEN a[i] < b[i]
    ELSE BigLessFrom(a, b, i - 1)

BigLess(a, b) ==
    IF Len(a) # Len(b) THEN Len(a) < Len(b) ELSE BigLessFrom(a, b, Len(a))

\* a * k for a limb-sized k
RECURSIVE BigScaleFrom(_, _, _, _)
BigScaleFrom(a, k, i, carry) ==
    IF i > Len(a)
    THEN (IF carry = 0 THEN <<>> ELSE <<carry>>)
    ELSE LET x == a[i] * k + carry
         IN  <<x % Limb>> \o BigScaleFrom(a, k, i + 1, x \div Limb)

BigScale(a, k) == BigNorm(BigScaleFrom(a, k, 1, 0))

RECURSIVE BigMulFrom(_, _, _)
BigMulFrom(a, b, i) ==
    IF i > Len(b) THEN <<>>
    ELSE BigAdd(Zeros(i - 1) \o BigScale(a, b[i]), BigMulFrom(a, b, i + 1))

BigMul(a, b) == BigNorm(BigMulFrom(a, b, 1))

\* a * 2^k
BigShl(a, k) ==
    IF a = <<>> THEN <<>>
    ELSE Zeros(k \div LimbBits) \o BigScale(a, Pow2(k % LimbBits))

\* floor(a / d) for a limb-sized d, from the top limb down
RECURSIVE BigQuotFrom(_, _, _, _)
BigQuotFrom(a, d, i, rem) ==
    IF i = 0 THEN <<>>
    ELSE LET x == rem * Limb + a[i]
         IN  BigQuotFrom(a, d, i - 1, x % d) \o <<x \div d>>

\* floor(a / 2^k)
BigShr(a, k) ==
    LET high == IF k \div LimbBits >= Len(a) THEN <<>>
                ELSE SubSeq(a, k \div LimbBits + 1, Len(a))
    IN  BigNorm(BigQuotFrom(high, Pow2(k % LimbBits), Len(high), 0))

RECURSIVE IntBitLen(_)
IntBitLen(i) == IF i = 0 THEN 0 ELSE 1 + IntBitLen(i \div 2)

BigBitLen(a) ==
    IF a = <<>> THEN 0 ELSE (Len(a) - 1) * LimbBits + IntBitLen(a[Len(a)])

BigIsOdd(a) == a # <<>> /\ a[1] % 2 = 1

\* the doubles: kind "finite" is (-1)^neg * m * 2^e with m of 53 bits, or m
\* zero; "inf" is +-Infinity; "nan" is NaN
DZero == [kind |-> "finite", neg |-> FALSE, m |-> <<>>, e |-> 0]

DNaN == [kind |-> "nan", neg |-> FALSE, m |-> <<>>, e |-> 0]

DInf(neg) == [kind |-> "inf", neg |-> neg, m |-> <<>>, e |-> 0]

DIsZero(x) == x.kind = "finite" /\ x.m = <<>>

\* (-1)^neg * n * 2^e, plus a little more if sticky, rounded to the nearest
\* double, a tie going to the even one
RoundNearestEven(neg, n, e, sticky) ==
    IF n = <<>> THEN DZero
    ELSE LET drop == BigBitLen(n) - Precision
         IN  IF drop <= 0
             THEN [kind |-> "finite", neg |-> neg, m |-> BigShl(n, -drop), e |-> e + drop]
             ELSE LET q == BigShr(n, drop)
                      rem == BigSub(n, BigShl(q, drop))
                      half == BigShl(<<1>>, drop - 1)
                      up == \/ BigLess(half, rem)
                            \/ rem = half /\ (sticky \/ BigIsOdd(q))
                      r == IF up THEN BigAdd(q, <<1>>) ELSE q
                  IN  IF BigBitLen(r) > Precision
                      THEN [kind |-> "finite", neg |-> neg, m |-> BigShr(r, 1),
                            e |-> e + drop + 1]
                      ELSE [kind |-> "finite", neg |-> neg, m |-> r, e |-> e + drop]

\* one digit of a long division: the largest d with d * b <= rem, for
\* rem < b * Limb and a divisor b whose top limb is at least Limb / 2; the
\* quotient of the two top limbs of rem by the top limb of b is d, d + 1 or
\* d + 2
BigDigit(rem, b) ==
    LET top == LimbAt(rem, Len(b) + 1) * Limb + LimbAt(rem, Len(b))
        guess == IF top \div b[Len(b)] >= Limb THEN Limb - 1 ELSE top \div b[Len(b)]
    IN  IF ~BigLess(rem, BigScale(b, guess)) THEN guess
        ELSE IF ~BigLess(rem, BigScale(b, guess - 1)) THEN guess - 1
        ELSE guess - 2

\* the long division of a by b, from the limb i of a down, s holding the
\* remainder and the quotient of the limbs above
RECURSIVE BigDivFrom(_, _, _, _)
BigDivFrom(a, b, i, s) ==
    IF i = 0 THEN s
    ELSE LET rem == BigNorm(<<a[i]>> \o s.rem)
             d == BigDigit(rem, b)
         IN  BigDivFrom(a, b, i - 1,
                        [rem |-> BigSub(rem, BigScale(b, d)),
                         q |-> BigNorm(<<d>> \o s.q)])

\* the bits that bring a number of 53 bits to whole limbs
ToWholeLimbs == (LimbBits - (Precision % LimbBits)) % LimbBits

\* the limbs of quotient computed below the point
QuotientLimbs == 4

\* a / b
DOver(a, b) ==
    IF a.kind = "nan" \/ b.kind = "nan" THEN DNaN
    ELSE IF a.kind = "inf"
         THEN (IF b.kind = "inf" THEN DNaN ELSE DInf(a.neg # b.neg))
    ELSE IF b.kind = "inf" THEN DZero
    ELSE IF DIsZero(b) THEN (IF DIsZero(a) THEN DNaN ELSE DInf(a.neg # b.neg))
    ELSE IF DIsZero(a) THEN DZero
    ELSE LET x == Zeros(QuotientLimbs) \o BigShl(a.m, ToWholeLimbs)
             d == BigDivFrom(x, BigShl(b.m, ToWholeLimbs), Len(x),
                             [rem |-> <<>>, q |-> <<>>])
         IN  RoundNearestEven(a.neg # b.neg, d.q,
                              a.e - b.e - QuotientLimbs * LimbBits, d.rem # <<>>)

\* the double of an integer, and of a decimal literal n / d
DInt(i) == RoundNearestEven(i < 0, Big(Abs(i)), 0, FALSE)

Double(x) ==
    IF IsNaN(x) THEN DNaN
    ELSE IF x.d = 0 THEN DInf(x.n < 0)
    ELSE IF x.d = 1 THEN DInt(x.n)
    ELSE DOver(DInt(x.n), DInt(x.d))

\* a * b
DTimes(a, b) ==
    IF a.kind = "nan" \/ b.kind = "nan" THEN DNaN
    ELSE IF a.kind = "inf" \/ b.kind = "inf"
         THEN (IF DIsZero(a) \/ DIsZero(b) THEN DNaN ELSE DInf(a.neg # b.neg))
    ELSE RoundNearestEven(a.neg # b.neg, BigMul(a.m, b.m), a.e + b.e, FALSE)

\* a + b
DPlus(a, b) ==
    IF a.kind = "nan" \/ b.kind = "nan" THEN DNaN
    ELSE IF a.kind = "inf"
         THEN (IF b.kind = "inf" /\ a.neg # b.neg THEN DNaN ELSE a)
    ELSE IF b.kind = "inf" THEN b
    ELSE IF DIsZero(a) THEN b
    ELSE IF DIsZero(b) THEN a
    ELSE LET e == IF a.e < b.e THEN a.e ELSE b.e
             x == BigShl(a.m, a.e - e)
             y == BigShl(b.m, b.e - e)
         IN  IF a.neg = b.neg THEN RoundNearestEven(a.neg, BigAdd(x, y), e, FALSE)
             ELSE IF BigLess(x, y) THEN RoundNearestEven(b.neg, BigSub(y, x), e, FALSE)
             ELSE RoundNearestEven(a.neg, BigSub(x, y), e, FALSE)

\* a - b
DMinus(a, b) == DPlus(a, [b EXCEPT !.neg = ~b.neg])

\* a small natural kept in limbs, as an integer
RECURSIVE BigToInt(_)
BigToInt(a) == IF a = <<>> THEN 0 ELSE Head(a) + Limb * BigToInt(Tail(a))

\* Math.round of a double, as a number of the pages: the nearest integer, a
\* tie going up
DMathRound(a) ==
    IF a.kind = "nan" THEN NaN
    ELSE IF a.kind = "inf" THEN (IF a.neg THEN NegInfinity ELSE Infinity)
    ELSE IF DIsZero(a) THEN Num(0)
    ELSE IF a.e >= 0 THEN Num((IF a.neg THEN -1 ELSE 1) * BigToInt(BigShl(a.m, a.e)))
    ELSE LET halves == BigShr(a.m, -a.e - 1)
             exact == BigShl(halves, -a.e - 1) = a.m
             floorOfTwice == IF a.neg /\ ~exact THEN -BigToInt(halves) - 1
                             ELSE (IF a.neg THEN -1 ELSE 1) * BigToInt(halves)
         IN  Num((floorOfTwice + 1) \div 2)

\* the percentage of the segment page as the engine computes it, in doubles
efficiencyPercentDouble(s) ==
    LET hours == DTimes(Double(s.payCycles), Double(s.avgHoursPerCycle))
        cost == DTimes(hours, Double(s.hourlyRate))
        w == SAVINGS_WEIGHTS[s.segment]
        left == DMinus(DInt(1), Double(efficiencyFactor(s.segment)))
        manual == DTimes(DTimes(cost, Double(w.manual)), left)
        compliance == DTimes(DTimes(cost, Double(w.compliance)), left)
        errors == DTimes(DTimes(DTimes(cost, Double(w.errors)),
                                DOver(Double(s.errorRate), DInt(100))),
                         Double(errorFactor(s.segment)))
        sum == DPlus(DPlus(manual, compliance), errors)
    IN  MathMin(Num(100), DMathRound(DTimes(DOver(sum, cost), DInt(100))))

\* every position of a range input
SliderPositions(v, field) ==
    LET r == Slider(v, field)
    IN  {Plus(r.min, Times(Num(k), r.step)) :
             k \in 0..Over(Minus(r.max, r.min), r.step).n}

\* pay cycles, hours and hourly rates with a positive admin cost
DoubleCosts ==
    [payCycles : {Num(26), Num(12)}, avgHoursPerCycle : {Num(8)},
     hourlyRate : {Num(1), Num(2), Num(55)}]

DoubleInit ==
    /\ variant = "segment"
    /\ \E c \in DoubleCosts, g \in SEGMENTS, r \in SliderPositions("segment", "errorRate") :
           inputs = [Defaults("segment") EXCEPT !.payCycles = c.payCycles,
                                                !.avgHoursPerCycle = c.avgHoursPerCycle,
                                                !.hourlyRate = c.hourlyRate,
                                                !.segment = g,
                                                !.errorRate = r]
    /\ memo = Unmounted
    /\ dial = Undrawn

\* the first render of the segment page, its percentage computed in doubles
MountDouble ==
    /\ ~Mounted
    /\ memo' = [deps |-> DepValues(variant, inputs),
                value |-> [efficiencyPercent |-> efficiencyPercentDouble(inputs)]]
    /\ dial' = GaugeOf(variant, memo'.value.efficiencyPercent)
    /\ UNCHANGED <<variant, inputs>>

DoubleNext == MountDouble

DoubleSpec == DoubleInit /\ [][DoubleNext]_vars

(* --------------------- the bars of the breakdown ----------------------- *)

\* dollars and totals handed to a bar: below 0, 0, a part of the total, the
\* total, more than the total
BarDollars == {Num(-50), Num(0), Frac(1, 2), Num(25), Num(100), Num(150)}

BarTotals == {Num(-100), Num(0), Num(100), Num(125)}

BarsDrawn == "efficiency" \in DOMAIN dial

\* either the page with RISK_BANDS has rendered and hands its figures to the
\* bars, or the bars are given dollars and a total of any kind
BarInit ==
    /\ variant = "risk"
    /\ \/ /\ inputs \in Snapshots("risk")
          /\ memo = Render("risk", inputs, Unmounted)
          /\ dial = [props |-> BreakdownProps(memo.value)]
       \/ /\ inputs = Defaults("risk")
          /\ memo = Unmounted
          /\ dial \in [props : [efficiencyDollars : BarDollars,
                                complianceRiskDollars : BarDollars,
                                recordKeepingDollars : BarDollars,
                                totalAnnualSavings : BarTotals]]

\* the three bars render
DrawBars ==
    /\ ~BarsDrawn
    /\ dial' = Breakdown(dial.props)
    /\ UNCHANGED <<variant, inputs, memo>>

BarNext == DrawBars

BarSpec == BarInit /\ [][BarNext]_vars

(* ------------------------ what the pages display ----------------------- *)

\* the figures of a calculation's result o, by the label the page of variant
\* v renders them under
EfficiencyShown(v, o) ==
    IF v = "segment"
    THEN Plus(Plus(o.breakdown.manualSavings, o.breakdown.complianceSavings),
              o.breakdown.errorSavings)
    ELSE IF v = "risk" THEN o.efficiencyDollars ELSE o.totalAnnualSavings

RiskAvoidanceShown(v, o) ==
    IF v = "segment" THEN o.breakdown.complianceRiskAvoidance ELSE o.complianceRiskDollars

RecordKeepingShown(v, o) ==
    IF v = "segment" THEN o.breakdown.recordSavings ELSE o.recordKeepingDollars

HoursBackShown(v, o) == IF v = "segment" THEN o.totalAdminHours ELSE o.hoursBackToTeam

\* the three efficiency buckets, in dollars: manual, compliance, errors
Buckets(v, o) ==
    IF v = "segment"
    THEN <<o.breakdown.manualSavings, o.breakdown.complianceSavings,
           o.breakdown.errorSavings>>
    ELSE <<o.byCategory["manual"].dollars, o.byCategory["compliance"].dollars,
           o.byCategory["errors"].dollars>>

\* the inputs of the variants under one name
ErrorRateOf(v, s) == IF v = "segment" THEN s.errorRate ELSE s.errorRatePct

IncidentProbOf(v, s) == IF v = "segment" THEN s.incidentProb ELSE s.incidentProbPct

HasBreakdown == variant \in {"risk", "segment"}

(* -------------------------------- claims ------------------------------- *)

\* C1: on every page with a breakdown, totalAnnualSavings is exactly the sum
\* of the three figures of the breakdown: efficiency (time saved),
\* record-keeping & reporting, compliance & risk avoidance.
C1_TotalIsSumOfBreakdown ==
    (Mounted /\ HasBreakdown) =>
        memo.value.totalAnnualSavings =
            Plus(Plus(EfficiencyShown(variant, memo.value),
                      RecordKeepingShown(variant, memo.value)),
                 RiskAvoidanceShown(variant, memo.value))

\* C1 witness: a segment page after input changes whose three figures are
\* all positive and differ from each other.
C1_Witness ==
    /\ Mounted /\ variant = "segment" /\ inputs # Defaults(variant)
    /\ Less(Num(0), RecordKeepingShown(variant, memo.value))
    /\ Less(RecordKeepingShown(variant, memo.value), RiskAvoidanceShown(variant, memo.value))
    /\ Less(RiskAvoidanceShown(variant, memo.value), EfficiencyShown(variant, memo.value))

\* C2: on every page, currentAdminHours is payCycles x avgHoursPerCycle and
\* currentAdminCost is that times hourlyRate, whatever the error rate, the
\* record-keeping percentage, the penalty band, the incident probability and
\* the segment are.
C2_AdminHoursAndCost ==
    Mounted =>
        /\ memo.value.currentAdminCost =
               Times(Times(inputs.payCycles, inputs.avgHoursPerCycle), inputs.hourlyRate)
        /\ variant # "segment" =>
               memo.value.currentAdminHours =
                   Times(inputs.payCycles, inputs.avgHoursPerCycle)

\* C2 witness: a segment page whose segment, error rate and penalty band were
\* changed, its admin cost still 26 x 8 x 55.
C2_Witness ==
    /\ Mounted /\ variant = "segment"
    /\ inputs.segment = "Enterprise" /\ inputs.errorRate = Num(10)
    /\ inputs.penaltyBand = "High"
    /\ memo.value.currentAdminCost = Num(11440)

\* C3 (as claimed): the efficiency percentage handed to the gauge is a number
\* in [0, 100] on every page, hourlyRate = 0 included.
C3_GaugeValueInRange ==
    Mounted =>
        /\ Leq(Num(0), GaugeValue(variant, memo.value))
        /\ Leq(GaugeValue(variant, memo.value), Num(100))

\* C4 (as claimed): with hourlyRate = 0 the admin cost, the efficiency savings,
\* each efficiency bucket and the record-keeping savings are exactly 0, and
\* the hours back to the team are what they are at a positive hourly rate.
C4_ZeroHourlyRate ==
    (Mounted /\ inputs.hourlyRate = Num(0)) =>
        /\ memo.value.currentAdminCost = Num(0)
        /\ EfficiencyShown(variant, memo.value) = Num(0)
        /\ HasBreakdown =>
               /\ \A i \in 1..3 : Buckets(variant, memo.value)[i] = Num(0)
               /\ RecordKeepingShown(variant, memo.value) = Num(0)
        /\ HoursBackShown(variant, memo.value) =
               HoursBackShown(variant,
                              Engine(variant, [inputs EXCEPT !.hourlyRate = Num(55)]))

\* C5 (as claimed): an error rate of 0 makes the hours back to the team, each
\* of the three efficiency buckets and the efficiency percentage 0, on every
\* page and for both segments.
C5_ZeroErrorRateZeroesAll ==
    (Mounted /\ ErrorRateOf(variant, inputs) = Num(0)) =>
        /\ HoursBackShown(variant, memo.value) = Num(0)
        /\ HasBreakdown => \A i \in 1..3 : Buckets(variant, memo.value)[i] = Num(0)
        /\ GaugeValue(variant, memo.value) = Num(0)

\* C5 (amended): an error rate of 0 makes the hours back to the team, the
\* three efficiency buckets and the efficiency percentage 0 on the basic page
\* and on the page with RISK_BANDS; on the segment page it makes the
\* error-reduction bucket 0, and nothing else.
C5_ZeroErrorRate ==
    (Mounted /\ ErrorRateOf(variant, inputs) = Num(0)) =>
        IF variant = "segment"
        THEN memo.value.breakdown.errorSavings = Num(0)
        ELSE /\ memo.value.hoursBackToTeam = Num(0)
             /\ EfficiencyShown(variant, memo.value) = Num(0)
             /\ variant = "risk" =>
                    \A c \in DOMAIN memo.value.byCategory :
                        /\ memo.value.byCategory[c].hours = Num(0)
                        /\ memo.value.byCategory[c].dollars = Num(0)
             /\ memo.value.efficiencyPct = Num(0)

\* C5 witness: a page with RISK_BANDS, its error rate moved to 0, with a
\* positive admin cost.
C5_Witness ==
    /\ Mounted /\ variant = "risk"
    /\ inputs.errorRatePct = Num(0)
    /\ Less(Num(0), memo.value.currentAdminCost)

\* C6: a change of the hourly rate alone, from a rate >= 0 to a larger one,
\* never lowers totalAnnualSavings.
C6_MonotoneInHourlyRate ==
    [][(/\ Mounted
        /\ inputs' = [inputs EXCEPT !.hourlyRate = inputs'.hourlyRate]
        /\ Leq(Num(0), inputs.hourlyRate)
        /\ Leq(inputs.hourlyRate, inputs'.hourlyRate))
       => Leq(memo.value.totalAnnualSavings, memo'.value.totalAnnualSavings)]_vars

\* C6 witness: a page whose hourly rate was set to 1, with total savings
\* above those of the hourly rate 0.
C6_Witness ==
    /\ Mounted /\ HasBreakdown
    /\ inputs.hourlyRate = Num(1)
    /\ Less(Engine(variant, [inputs EXCEPT !.hourlyRate = Num(0)]).totalAnnualSavings,
            memo.value.totalAnnualSavings)

\* C7: after any sequence of input changes the result the page renders is the
\* calculation applied to the current inputs: no figure is stale.
C7_NothingStale ==
    Mounted => memo.value = Engine(variant, inputs)

\* C7 witness: a page several of whose inputs, the employees among them, were
\* changed since the first render.
C7_Witness ==
    /\ Mounted
    /\ inputs.employees # Defaults(variant).employees
    /\ inputs.hourlyRate # Defaults(variant).hourlyRate
    /\ inputs.payCycles # Defaults(variant).payCycles
    /\ memo.value # Engine(variant, Defaults(variant))

OtherSegment(g) == IF g = "Council" THEN "Enterprise" ELSE "Council"

ClampPercent(p) == MathMax(Num(0), MathMin(Num(100), p))

\* the midpoint the calculation uses for the band of snapshot s
MidpointUsed(v, s) ==
    IF v = "segment" THEN avgPenalty(s.penaltyBand) ELSE RISK_BANDS[s.riskBand].mid

ClaimedMidpoint(v, band) ==
    CASE band \in {"medium", "Medium"} -> Num(20000)
      [] band \in {"high", "High"} -> Num(65000)
      [] band = "low" -> Num(5000)
      [] band = "Low" -> Num(2500)

BandOf(v, s) == IF v = "segment" THEN s.penaltyBand ELSE s.riskBand

\* C10: for every band and every incident probability in [0, 100] the
\* compliance & risk avoidance is midpoint x probability / 100, the midpoint
\* being the mean of the band's bounds, 20,000 for Medium and 65,000 for High;
\* Medium at 8 % gives 1,600.
C10_RiskAvoidanceIsMidpointTimesProbability ==
    (/\ Mounted /\ HasBreakdown
     /\ Leq(Num(0), IncidentProbOf(variant, inputs))
     /\ Leq(IncidentProbOf(variant, inputs), Num(100))) =>
        /\ RiskAvoidanceShown(variant, memo.value) =
               Over(Times(ClaimedMidpoint(variant, BandOf(variant, inputs)),
                          IncidentProbOf(variant, inputs)),
                    Num(100))
        /\ variant = "risk" =>
               RISK_BANDS[inputs.riskBand].mid =
                   Over(Plus(RISK_BANDS[inputs.riskBand].min,
                             RISK_BANDS[inputs.riskBand].max), Num(2))
        /\ variant = "segment" =>
               ClaimedMidpoint(variant, inputs.penaltyBand) =
                   Over(Plus(bandRange(inputs.penaltyBand)[1],
                             bandRange(inputs.penaltyBand)[2]), Num(2))
        /\ (BandOf(variant, inputs) \in {"medium", "Medium"}
            /\ IncidentProbOf(variant, inputs) = Num(8)) =>
               RiskAvoidanceShown(variant, memo.value) = Num(1600)

\* C10 witness: the segment page computed for the Medium band at 8 %, with a
\* risk avoidance of 1,600.
C10_Witness ==
    /\ Mounted /\ variant = "segment"
    /\ inputs.penaltyBand = "Medium" /\ inputs.incidentProb = Num(8)
    /\ memo.value.breakdown.complianceRiskAvoidance = Num(1600)

\* C11 (as claimed): with every input at its initial value (250 employees,
\* 26 pay cycles, 8 hours a cycle, error rate 3, hourly rate 55) the page shows
\* 208 admin hours, an admin cost of 11,440, 6.24 hours back to the team,
\* 343.2 of efficiency (time saved) and 75 on the gauge.
C11_InitialFigures ==
    (Mounted /\ inputs = Defaults(variant)) =>
        /\ variant # "segment" => memo.value.currentAdminHours = Num(208)
        /\ memo.value.currentAdminCost = Num(11440)
        /\ HoursBackShown(variant, memo.value) = Frac(624, 100)
        /\ EfficiencyShown(variant, memo.value) = Frac(3432, 10)
        /\ GaugeValue(variant, memo.value) = Num(75)

\* C11 (amended): with every input at its initial value the basic page and the
\* page with RISK_BANDS show 208 admin hours, an admin cost of 11,440, 6.24
\* hours back to the team, 343.2 of efficiency and 75 on the gauge; the segment
\* page shows the admin cost of 11,440, but 112.944 hours back to the team,
\* 6,211.92 of efficiency (4,804.8 + 1,372.8 + 34.32) and 54 on the gauge.
C11_InitialFiguresByPage ==
    (Mounted /\ inputs = Defaults(variant)) =>
        /\ memo.value.currentAdminCost = Num(11440)
        /\ variant # "segment" =>
               /\ memo.value.currentAdminHours = Num(208)
               /\ memo.value.hoursBackToTeam = Frac(624, 100)
               /\ EfficiencyShown(variant, memo.value) = Frac(3432, 10)
               /\ memo.value.efficiencyPct = Num(75)
        /\ variant = "segment" =>
               /\ memo.value.breakdown.manualSavings = Frac(48048, 10)
               /\ memo.value.breakdown.complianceSavings = Frac(13728, 10)
               /\ memo.value.breakdown.errorSavings = Frac(3432, 100)
               /\ memo.value.totalAdminHours = Frac(112944, 1000)
               /\ EfficiencyShown(variant, memo.value) = Frac(621192, 100)
               /\ memo.value.efficiencyPercent = Num(54)

\* C11 witness: the page with RISK_BANDS after its first render, every input
\* still at its initial value, with efficiency dollars of 343.2.
C11_Witness ==
    /\ Mounted /\ variant = "risk" /\ inputs = Defaults(variant)
    /\ memo.value.efficiencyDollars = Frac(3432, 10)
    /\ memo.value.efficiencyPct = Num(75)

\* the angle of the point midway along an arc
ArcApexAngle(arc) == Over(Plus(arc.from, arc.to), Num(2))

\* C12 (as claimed): the trigonometric gauge, a semicircle of centre (cx, cy)
\* and radius R from (cx-R, cy) to (cx+R, cy): at 0 the end point of the
\* progress arc is the start point, at 100 it is the end point, and at 50 the
\* large-arc flag is 0 and the end point is the apex, the point midway along
\* the arc the gauge draws between the two.
C12_GaugeReferencePoints ==
    (Drawn /\ variant = "segment") =>
        /\ dial.value = Num(0) =>
               /\ endX(dial) = Minus(dial.cx, dial.R)
               /\ endY(dial) = dial.cy
        /\ dial.value = Num(100) =>
               /\ endX(dial) = Plus(dial.cx, dial.R)
               /\ endY(dial) = dial.cy
        /\ dial.value = Num(50) =>
               /\ dial.largeArcFlag = 0
               /\ endX(dial) =
                      Plus(dial.cx, Times(dial.R, MathCos(ArcApexAngle(backgroundArc))))
               /\ endY(dial) =
                      Plus(dial.cy, Times(dial.R, MathSin(ArcApexAngle(backgroundArc))))

C14_HoursBackIsHoursTimesErrorRate ==
    Mounted =>
        HoursBackShown(variant, memo.value) =
            Times(Times(inputs.payCycles, inputs.avgHoursPerCycle),
                  Over(ErrorRateOf(variant, inputs), Num(100)))

\* the share of the admin cost the segment page counts as efficiency savings
SegmentShare(s) ==
    LET w == SAVINGS_WEIGHTS[s.segment]
        left == Minus(Num(1), efficiencyFactor(s.segment))
    IN  Plus(Plus(Times(w.manual, left), Times(w.compliance, left)),
             Times(Times(w.errors, Over(s.errorRate, Num(100))), errorFactor(s.segment)))

\* C14 (amended): on the basic page and on the page with RISK_BANDS the hours
\* back to the team are currentAdminHours x (errorRatePct / 100), whatever the
\* hourly rate is.  On the segment page the figure is the sum of the three
\* efficiency buckets divided by the hourly rate: at a positive hourly rate
\* currentAdminHours x (manual weight x (1 - efficiencyFactor) + compliance
\* weight x (1 - efficiencyFactor) + errors weight x errorRate / 100 x
\* errorFactor), which depends on the segment and its weights but not on the
\* hourly rate, and NaN at the hourly rate 0.
C14_HoursBackByPage ==
    Mounted =>
        IF variant # "segment"
        THEN memo.value.hoursBackToTeam =
                 Times(Times(inputs.payCycles, inputs.avgHoursPerCycle),
                       Over(inputs.errorRatePct, Num(100)))
        ELSE IF inputs.hourlyRate = Num(0)
        THEN IsNaN(memo.value.totalAdminHours)
        ELSE memo.value.totalAdminHours =
                 Times(Times(inputs.payCycles, inputs.avgHoursPerCycle),
                       SegmentShare(inputs))

\* C14 witness: a page with RISK_BANDS whose hourly rate was set to 1 and
\* whose error rate was moved to 15, with 31.2 hours back to the team.
C14_Witness ==
    /\ Mounted /\ variant = "risk"
    /\ inputs.hourlyRate = Num(1) /\ inputs.errorRatePct = Num(15)
    /\ memo.value.hoursBackToTeam = Frac(312, 10)

\* the split weights a page with a breakdown uses
SplitWeights(v, s) == IF v = "segment" THEN SAVINGS_WEIGHTS[s.segment] ELSE effSplit

\* C15 (as claimed): on every page with a breakdown, and for every input, the
\* dollars of the three efficiency buckets add up to the hours back to the
\* team x hourlyRate, the hours of the buckets (where the page has them) add
\* up to the hours back to the team, and the split weights add up to 1.
C15_BucketsPartitionEfficiency ==
    (Mounted /\ HasBreakdown) =>
        LET b == Buckets(variant, memo.value)
            w == SplitWeights(variant, inputs)
        IN  /\ Plus(Plus(b[1], b[2]), b[3]) =
                   Times(HoursBackShown(variant, memo.value), inputs.hourlyRate)
            /\ variant = "risk" =>
                   Plus(Plus(memo.value.byCategory["manual"].hours,
                             memo.value.byCategory["compliance"].hours),
                        memo.value.byCategory["errors"].hours)
                   = memo.value.hoursBackToTeam
            /\ Plus(Plus(w.manual, w.compliance), w.errors) = Num(1)

\* every number the segment page multiplies a bucket of segment g by
SegmentMultipliers(g) ==
    {SAVINGS_WEIGHTS[g].manual, SAVINGS_WEIGHTS[g].compliance, SAVINGS_WEIGHTS[g].errors,
     Minus(Num(1), efficiencyFactor(g)), errorFactor(g)}

\* the calculation of the page for segment g, the other inputs as they are
ForSegment(g) == Engine(variant, [inputs EXCEPT !.segment = g])

C17_ErrorSavingsSegmentNeutral ==
    (Mounted /\ variant = "segment") =>
        /\ \A g \in SEGMENTS : errorFactor(g) = Num(1)
        /\ ForSegment("Council").breakdown.errorSavings =
               ForSegment("Enterprise").breakdown.errorSavings

\* C17 (amended): the segment does enter the error-reduction bucket, through
\* the errors weight (0.1 for Council, 0.15 for Enterprise) and the
\* errorFactor (1.0 for Council, 0.8 for Enterprise): the bucket is
\* currentAdminCost x errorRate / 100 x 0.1 under Council and x 0.12 under
\* Enterprise, so with the other inputs equal that of Enterprise is 1.2 times
\* that of Council, and the two are equal only when they are 0.
C17_ErrorSavingsBySegment ==
    (Mounted /\ variant = "segment") =>
        LET base == Times(memo.value.currentAdminCost, Over(inputs.errorRate, Num(100)))
        IN  /\ ForSegment("Council").breakdown.errorSavings = Times(base, Frac(10, 100))
            /\ ForSegment("Enterprise").breakdown.errorSavings = Times(base, Frac(12, 100))
            /\ ForSegment("Enterprise").breakdown.errorSavings =
                   Times(Frac(12, 10), ForSegment("Council").breakdown.errorSavings)
            /\ (ForSegment("Council").breakdown.errorSavings =
                    ForSegment("Enterprise").breakdown.errorSavings)
               => memo.value.breakdown.errorSavings = Num(0)

\* C17 witness: a page switched to Enterprise with the error rate at 10 and a
\* positive admin cost, its error-reduction bucket above that of Council.
C17_Witness ==
    /\ Mounted /\ variant = "segment" /\ inputs.segment = "Enterprise"
    /\ inputs.errorRate = Num(10)
    /\ Less(Num(0), memo.value.currentAdminCost)
    /\ Less(ForSegment("Council").breakdown.errorSavings,
            memo.value.breakdown.errorSavings)

\* C18: a change of the employees input, to any value and at any point,
\* leaves every derived output as it was, on every page: the admin hours and
\* cost, the hours back to the team, every figure of the breakdown, the total
\* and the efficiency percentage, and with them the gauge.
C18_EmployeesChangeNothing ==
    [][(/\ Mounted
        /\ inputs'.employees # inputs.employees
        /\ inputs' = [inputs EXCEPT !.employees = inputs'.employees])
       => /\ memo'.value = memo.value
          /\ dial' = dial]_vars

\* C18 witness: a page whose pay cycles were set to 52 and whose employees
\* were then set to 1, its admin cost being 52 x 8 x 55.
C18_Witness ==
    /\ Mounted
    /\ inputs.employees = Num(1) /\ inputs.payCycles = Num(52)
    /\ inputs.avgHoursPerCycle = Num(8) /\ inputs.hourlyRate = Num(55)
    /\ memo.value.currentAdminCost = Num(22880)

\* the admin cost of the inputs c put into the inputs of the page
WithCost(c) ==
    [inputs EXCEPT !.payCycles = c.payCycles,
                   !.avgHoursPerCycle = c.avgHoursPerCycle,
                   !.hourlyRate = c.hourlyRate]

\* C19 (as claimed): on the segment page, with a positive admin cost, the
\* percentage shown on the gauge is a function of the segment and the error
\* rate only: with another hourly rate, other pay cycles or other hours per
\* cycle, the admin cost still positive, it is what it is.
C19_PercentOfSegmentAndErrorRate ==
    (Mounted /\ variant = "segment") =>
        \A c \in DoubleCosts :
            efficiencyPercentDouble(WithCost(c)) = memo.value.efficiencyPercent

\* the dollars of efficiency (time saved) a page arrives at
EfficiencySavings(v, o) ==
    CASE v = "basic" -> o.totalAnnualSavings
      [] v = "risk" -> o.efficiencyDollars
      [] v = "segment" ->
            Plus(Plus(o.breakdown.manualSavings, o.breakdown.complianceSavings),
                 o.breakdown.errorSavings)

\* an error rate in [0, 100] and an hourly rate of 0 or more
InDeclaredRanges(v, s) ==
    /\ Leq(Num(0), ErrorRateOf(v, s))
    /\ Leq(ErrorRateOf(v, s), Num(100))
    /\ Leq(Num(0), s.hourlyRate)

\* C20: on every page, with an error rate in [0, 100] and an hourly rate of 0
\* or more, the efficiency (time saved) savings are 0 or more and at most
\* currentAdminCost.
C20_EfficiencyWithinAdminCost ==
    (Mounted /\ InDeclaredRanges(variant, inputs)) =>
        /\ Leq(Num(0), EfficiencySavings(variant, memo.value))
        /\ Leq(EfficiencySavings(variant, memo.value), memo.value.currentAdminCost)

\* an error rate of 100 on a page with a positive admin cost: the savings of
\* the pages that take the error rate as the share saved are the whole cost
C20_Witness ==
    /\ Mounted
    /\ variant = "risk"
    /\ inputs.errorRatePct = Num(100)
    /\ inputs.hourlyRate = Num(55)
    /\ memo.value.efficiencyDollars = memo.value.currentAdminCost
    /\ Less(Num(0), memo.value.currentAdminCost)

\* the segment page at an error rate of 100: savings below the admin cost
C20_WitnessSegment ==
    /\ Mounted
    /\ variant = "segment"
    /\ inputs.errorRate = Num(100)
    /\ Less(Num(0), EfficiencySavings(variant, memo.value))
    /\ Less(EfficiencySavings(variant, memo.value), memo.value.currentAdminCost)

BarKeys == {"efficiency", "risk", "record"}

\* C21: each bar of the breakdown has a width in [0, 100] whatever its dollars
\* and its total; the width is 0 whenever the total is 0 or less; and on the
\* page, when the total is above 0 and the three components are 0 or more,
\* the widths of the three bars add up to 100.
C21_BarWidths ==
    BarsDrawn =>
        /\ \A k \in BarKeys :
               /\ Leq(Num(0), dial[k].pct)
               /\ Leq(dial[k].pct, Num(100))
               /\ Leq(dial[k].total, Num(0)) => dial[k].pct = Num(0)
        /\ ( /\ Mounted
             /\ Less(Num(0), memo.value.totalAnnualSavings)
             /\ \A k \in BarKeys : Leq(Num(0), dial[k].dollars) )
           => Plus(Plus(dial.efficiency.pct, dial.risk.pct), dial.record.pct) = Num(100)

\* the bars of the page at its defaults but for an hourly rate of 0: two
\* empty bars and a full one
C21_Witness ==
    /\ BarsDrawn
    /\ Mounted
    /\ inputs.hourlyRate = Num(0)
    /\ Less(Num(0), memo.value.totalAnnualSavings)
    /\ dial.efficiency.pct = Num(0)
    /\ dial.risk.pct = Num(100)
    /\ dial.record.pct = Num(0)

\* three bars of the page, none empty
C21_WitnessThreeBars ==
    /\ BarsDrawn
    /\ Mounted
    /\ \A k \in BarKeys : Less(Num(0), dial[k].pct)

\* a bar with a total of 0, and a bar with more dollars than its total
C21_WitnessGuardAndClamp ==
    /\ BarsDrawn
    /\ dial.efficiency.total = Num(0)
    /\ dial.efficiency.dollars = Num(150)
    /\ dial.efficiency.pct = Num(0)

====
